---- MODULE Spec2Model ----
(***************************************************************************)
(* QueueCTL: a persistent job queue (SQLite store) polled by N worker      *)
(* processes.  The model follows src/queuectl: job.py (the Job value       *)
(* object and its transition helpers), queue_manager.py (enqueue,          *)
(* get_next_job, update_job, retry_dlq_job), worker.py (the worker loop)   *)
(* and database.py (execute_query commits after every statement).          *)
(*                                                                         *)
(* Time stamps are the ISO-8601 strings of datetime.utcnow(); they are     *)
(* compared as strings by SQLite, which for the fixed format utcnow()      *)
(* produces is the order of the instants.  The model keeps the instant as  *)
(* a number of clock ticks.                                                *)
(***************************************************************************)
EXTENDS Integers, FiniteSets, Sequences, TLC

\* ------------------------------------------------------------------ bounds
NumWorkers == 2
MaxTime == 2
MaxMaxRetries == 2
\* get_next_job calls that return a given job
MaxClaims == 3
\* retry_dlq_job calls that write a given job
MaxDlqRetries == 1
\* the clock and max_retries where the whole retry schedule is followed
MaxBackoffTime == 6
MaxBackoffRetries == 3
\* enqueues of an id that is already in the table
MaxDuplicates == 1

\* ------------------------------------------------------- program constants
\* Python None / SQL NULL in a numeric or time-stamp column
NULL == -1
\* Python None / SQL NULL in a text column (error_message, output)
NONE == "None"
\* the per-job timeout a job gets when the caller names none
DefaultTimeout == 300
\* Config.DEFAULTS['backoff_base']
DefaultBackoffBase == 2
\* the max_retries a job gets when the caller names none
DefaultMaxRetries == 3
\* a run_at string that is no time stamp, such as "soon": the store keeps
\* it as text, and as text it sorts after every time stamp
NotATime == 99

JobIds == {"j1", "j2"}
Workers == 1..NumWorkers
Operators == {"op", "op2"}
Priorities == {0, 1}
Times == 0..MaxTime
\* the outcomes of Worker.execute_command
Results == {"ok", "exit", "timeout", "spawn"}

STATES == {"pending", "processing", "completed", "failed", "dead"}

VARIABLES
    jobs,         \* the jobs table: id -> row, for the ids inserted so far
    now,          \* the wall clock, datetime.utcnow() / time.time()
    backoff_base, \* the config table's backoff_base, as int(config.get(..))
    pc,           \* where each worker is in Worker.run / get_next_job
    wjob,         \* each worker's local Job copy (Worker.current_job)
    start_time,   \* process_job's start_time of each worker
    opc,          \* where each operator is in retry_dlq_job
    ojob,         \* the Job copy retry_dlq_job works on
    nclaims,      \* history: times get_next_job moved the job to processing
    nexecs,       \* history: times process_job ran the job's command
    nretries,     \* history: times retry_dlq_job wrote the job
    running,      \* Worker.running of each worker
    ndups,        \* history: enqueues of the id refused by the PRIMARY KEY
    config,       \* the config table: key -> value, for the keys stored
    cproc,        \* where each process is in Config.__init__ / Config.set
    sup           \* where the supervisor is in cli.start

vars == <<jobs, now, backoff_base, pc, wjob, start_time, opc, ojob,
          nclaims, nexecs, nretries, running, ndups, config, cproc, sup>>

\* the config table, its clients and the supervisor
cfgvars == <<config, cproc, sup>>

\* the state only the shutdown and the duplicate-enqueue steps change
ext == <<running, ndups, cfgvars>>

\* ------------------------------------------------------------------- Job
\* Job.__init__ with the keys the enqueue surface passes through from_dict
NewJob(id, command, max_retries, priority, timeout, run_at, t) ==
    [ id |-> id, command |-> command, state |-> "pending", attempts |-> 0,
      max_retries |-> max_retries, created_at |-> t, updated_at |-> t,
      next_retry_at |-> NULL, error_message |-> NONE, output |-> NONE,
      priority |-> priority, timeout |-> timeout, run_at |-> run_at,
      started_at |-> NULL, completed_at |-> NULL, execution_time |-> NULL ]

\* dict.get(key, default)
Get(data, key, default) == IF key \in DOMAIN data THEN data[key] ELSE default

\* Job.from_dict, then Job.__init__ at time t: every key of the record is
\* taken as it is, created_at and updated_at default to the clock
from_dict(data, t) ==
    [ id |-> data.id, command |-> data.command,
      state |-> Get(data, "state", "pending"),
      attempts |-> Get(data, "attempts", 0),
      max_retries |-> Get(data, "max_retries", DefaultMaxRetries),
      created_at |-> IF Get(data, "created_at", NULL) = NULL
                     THEN t ELSE data.created_at,
      updated_at |-> IF Get(data, "updated_at", NULL) = NULL
                     THEN t ELSE data.updated_at,
      next_retry_at |-> Get(data, "next_retry_at", NULL),
      error_message |-> Get(data, "error_message", NONE),
      output |-> Get(data, "output", NONE),
      priority |-> Get(data, "priority", 0),
      timeout |-> Get(data, "timeout", DefaultTimeout),
      run_at |-> Get(data, "run_at", NULL),
      started_at |-> Get(data, "started_at", NULL),
      completed_at |-> Get(data, "completed_at", NULL),
      execution_time |-> Get(data, "execution_time", NULL) ]

\* no Job: the value of Worker.current_job between jobs
NoJob == NewJob("", "", 0, 0, DefaultTimeout, NULL, 0)

RECURSIVE Pow(_, _)
Pow(b, e) == IF e = 0 THEN 1 ELSE b * Pow(b, e - 1)

\* Job.calculate_retry_delay
calculate_retry_delay(job, base) == Pow(base, job.attempts)

\* should_retry with the bound off by one
should_retry_offbyone(job) == job.attempts <= job.max_retries

\* Job.should_retry
should_retry(job) == job.attempts < job.max_retries

\* mark_for_retry whose dead branch keeps the old next_retry_at
mark_for_retry_keeps_retry_at(job, error_msg, base, t) ==
    LET j1 == [job EXCEPT !.attempts = job.attempts + 1,
                          !.error_message = error_msg,
                          !.updated_at = t]
    IN  IF should_retry(j1)
        THEN [j1 EXCEPT !.state = "failed",
                        !.next_retry_at = t + calculate_retry_delay(j1, base)]
        ELSE [j1 EXCEPT !.state = "dead"]

\* mark_for_retry that computes the delay before it counts the attempt
mark_for_retry_delay_first(job, error_msg, base, t) ==
    LET j1 == [job EXCEPT !.attempts = job.attempts + 1,
                          !.error_message = error_msg,
                          !.updated_at = t]
    IN  IF should_retry(j1)
        THEN [j1 EXCEPT !.state = "failed",
                        !.next_retry_at = t + calculate_retry_delay(job, base)]
        ELSE [j1 EXCEPT !.state = "dead", !.next_retry_at = NULL]

\* Job.mark_for_retry
mark_for_retry(job, error_msg, base, t) ==
    LET j1 == [job EXCEPT !.attempts = job.attempts + 1,
                          !.error_message = error_msg,
                          !.updated_at = t]
    IN  IF should_retry(j1)
        THEN [j1 EXCEPT !.state = "failed",
                        !.next_retry_at = t + calculate_retry_delay(j1, base)]
        ELSE [j1 EXCEPT !.state = "dead", !.next_retry_at = NULL]

\* mark_processing that leaves started_at alone
mark_processing_no_started_at(job, t) ==
    [job EXCEPT !.state = "processing", !.updated_at = t]

\* Job.mark_processing
mark_processing(job, t) ==
    [job EXCEPT !.state = "processing", !.started_at = t, !.updated_at = t]

\* mark_completed that leaves completed_at alone
mark_completed_no_completed_at(job, output, t) ==
    [job EXCEPT !.state = "completed", !.output = output, !.updated_at = t]

\* Job.mark_completed: started_at is a non-empty string once set, so the
\* test "if self.started_at" is the test for None
mark_completed(job, output, t) ==
    LET j1 == [job EXCEPT !.state = "completed", !.output = output,
                          !.completed_at = t, !.updated_at = t]
    IN  IF job.started_at # NULL
        THEN [j1 EXCEPT !.execution_time = t - job.started_at]
        ELSE j1

\* ----------------------------------------------------------------- store
\* INSERT OR REPLACE: a row with the id of an existing row takes its place
insert_job_or_replace(tbl, job) ==
    [i \in DOMAIN tbl \cup {job.id} |-> IF i = job.id THEN job ELSE tbl[i]]

\* QueueManager.enqueue: INSERT INTO jobs; id is the PRIMARY KEY, so the
\* INSERT of an id the table holds raises IntegrityError and inserts nothing
insert_job(tbl, job) ==
    IF job.id \in DOMAIN tbl
    THEN tbl
    ELSE [i \in DOMAIN tbl \cup {job.id} |->
             IF i = job.id THEN job ELSE tbl[i]]

\* an UPDATE without its WHERE clause
update_job_every_row(tbl, job) ==
    [i \in DOMAIN tbl |->
        [job EXCEPT !.id = tbl[i].id, !.created_at = tbl[i].created_at]]

\* QueueManager.update_job: UPDATE jobs SET <every column but id and
\* created_at> WHERE id=?; a statement that matches no row changes nothing
update_job(tbl, job) ==
    [i \in DOMAIN tbl |->
        IF i = job.id THEN [job EXCEPT !.created_at = tbl[i].created_at]
        ELSE tbl[i]]

\* a WHERE clause without the test of run_at
Eligible_ignores_run_at(tbl, t) ==
    { i \in DOMAIN tbl :
        /\ tbl[i].state \in {"pending", "failed"}
        /\ (tbl[i].next_retry_at = NULL \/ tbl[i].next_retry_at <= t) }

\* the WHERE clause of get_next_job's SELECT
Eligible(tbl, t) ==
    { i \in DOMAIN tbl :
        /\ tbl[i].state \in {"pending", "failed"}
        /\ (tbl[i].next_retry_at = NULL \/ tbl[i].next_retry_at <= t)
        /\ (tbl[i].run_at = NULL \/ tbl[i].run_at <= t) }

\* ORDER BY created_at ASC alone: first in, first out whatever the priority
FirstRows_fifo(tbl, t) ==
    { i \in Eligible(tbl, t) :
        \A k \in Eligible(tbl, t) : tbl[i].created_at <= tbl[k].created_at }

\* ORDER BY priority DESC, created_at ASC LIMIT 1: the rows the SELECT may
\* return; SQL leaves the order of rows that tie on both keys open
FirstRows(tbl, t) ==
    { i \in Eligible(tbl, t) :
        \A k \in Eligible(tbl, t) :
            \/ tbl[k].priority < tbl[i].priority
            \/ /\ tbl[k].priority = tbl[i].priority
               /\ tbl[i].created_at <= tbl[k].created_at }

\* Worker.process_job: error_msg = result['error'] or "Exit code: N"
ErrorMsg(r) ==
    CASE r = "exit"    -> "Exit code"
      [] r = "timeout" -> "Command timed out"
      [] r = "spawn"   -> "spawn error"
      [] OTHER         -> NONE

\* process_job that records nothing when the command fails
process_result_failure_ignored(job, r, base, t, execution_time) ==
    IF r = "ok"
    THEN [mark_completed(job, "stdout", t) EXCEPT
              !.execution_time = execution_time]
    ELSE job

\* Worker.process_job, from the result of execute_command to the Job it
\* hands to update_job
process_result(job, r, base, t, execution_time) ==
    IF r = "ok"
    THEN [mark_completed(job, "stdout", t) EXCEPT
              !.execution_time = execution_time]
    ELSE mark_for_retry(job, ErrorMsg(r), base, t)

\* retry_dlq_job that forgets to reset attempts
retry_reset_keeps_attempts(job, t) ==
    [job EXCEPT !.state = "pending", !.next_retry_at = NULL,
                !.error_message = NONE, !.updated_at = t]

\* QueueManager.retry_dlq_job, the Job it hands to update_job
retry_reset(job, t) ==
    [job EXCEPT !.state = "pending", !.attempts = 0, !.next_retry_at = NULL,
                !.error_message = NONE, !.updated_at = t]

\* ---------------------------------------------------------------- Config
\* Config.DEFAULTS, in the order _init_defaults walks it
ConfigKeys == <<"max_retries", "backoff_base", "worker_poll_interval",
                "job_timeout">>

DEFAULTS == [max_retries |-> "3", backoff_base |-> "2",
             worker_poll_interval |-> "2", job_timeout |-> "300"]

\* the keys Config.set is called with: a recognised one and another one
SetKeys == {"backoff_base", "log_level"}

\* the values Config.set is called with
SetValues == {5, 7}

\* the processes that construct and use a Config
ConfigProcs == {"c1", "c2"}

\* str(value) of a small non-negative integer
Str(v) == <<"0", "1", "2", "3", "4", "5", "6", "7", "8", "9">>[v + 1]

\* the key after this one in DEFAULTS, or NONE after the last
NextKey(key) ==
    LET i == CHOOSE n \in 1..Len(ConfigKeys) : ConfigKeys[n] = key
    IN  IF i = Len(ConfigKeys) THEN NONE ELSE ConfigKeys[i + 1]

\* a get that answers the default although a row is stored
Config_get_default_first(cfg, key, default) ==
    IF default # NONE THEN default
    ELSE IF key \in DOMAIN DEFAULTS THEN DEFAULTS[key]
    ELSE IF key \in DOMAIN cfg THEN cfg[key]
    ELSE NONE

\* Config.get: the stored value, else default or DEFAULTS.get(key)
Config_get(cfg, key, default) ==
    IF key \in DOMAIN cfg THEN cfg[key]
    ELSE IF default # NONE THEN default
    ELSE IF key \in DOMAIN DEFAULTS THEN DEFAULTS[key]
    ELSE NONE

\* INSERT INTO config (key, value) of a key that has no row
insert_config(cfg, key, value) ==
    [k \in DOMAIN cfg \cup {key} |-> IF k = key THEN value ELSE cfg[k]]

\* UPDATE config SET value = ? WHERE key = ?
update_config(cfg, key, value) ==
    [k \in DOMAIN cfg |-> IF k = key THEN value ELSE cfg[k]]

\* a process that has constructed its Config and is in no call
ConfigReady == [pc |-> "ready", key |-> NONE, value |-> NULL]

\* the supervisor joining its first worker
SupJoining == [pc |-> "join", i |-> 1, sent |-> {}]

\* ------------------------------------------------------------------ Init
Init ==
    /\ jobs = << >>
    /\ now = 0
    /\ backoff_base = DefaultBackoffBase
    /\ pc = [w \in Workers |-> "poll"]
    /\ wjob = [w \in Workers |-> NoJob]
    /\ start_time = [w \in Workers |-> 0]
    /\ opc = [o \in Operators |-> "idle"]
    /\ ojob = [o \in Operators |-> NoJob]
    /\ nclaims = [i \in JobIds |-> 0]
    /\ nexecs = [i \in JobIds |-> 0]
    /\ nretries = [i \in JobIds |-> 0]
    /\ running = [w \in Workers |-> TRUE]
    /\ ndups = [i \in JobIds |-> 0]
    /\ config = DEFAULTS
    /\ cproc = [p \in ConfigProcs |-> ConfigReady]
    /\ sup = SupJoining

\* --------------------------------------------------------------- actions
\* the clock advances
TickUpTo(T) ==
    /\ now < T
    /\ now' = now + 1
    /\ UNCHANGED <<jobs, backoff_base, pc, wjob, start_time, opc, ojob,
                   nclaims, nexecs, nretries>>
    /\ UNCHANGED ext

Tick == TickUpTo(MaxTime)

\* cli.enqueue with the record {command, id, max_retries, priority, run_at}:
\* Job.from_dict, then QueueManager.enqueue.  An id already in the table
\* fails the INSERT (PRIMARY KEY) and changes nothing.
Enqueue(id, max_retries, priority, run_at) ==
    /\ id \notin DOMAIN jobs
    /\ jobs' = insert_job(jobs, NewJob(id, "cmd", max_retries, priority,
                                       DefaultTimeout, run_at, now))
    /\ UNCHANGED <<now, backoff_base, pc, wjob, start_time, opc, ojob,
                   nclaims, nexecs, nretries>>
    /\ UNCHANGED ext

\* cli.enqueue of an id the table already holds: QueueManager.enqueue
\* raises, cli.enqueue prints the error
EnqueueDuplicate(id, max_retries, priority, run_at) ==
    /\ id \in DOMAIN jobs
    /\ ndups[id] < MaxDuplicates
    /\ jobs' = insert_job(jobs, NewJob(id, "cmd", max_retries, priority,
                                       DefaultTimeout, run_at, now))
    /\ ndups' = [ndups EXCEPT ![id] = @ + 1]
    /\ UNCHANGED <<now, backoff_base, pc, wjob, start_time, opc, ojob,
                   nclaims, nexecs, nretries, running, cfgvars>>

\* cli.enqueue with a JSON record: the only test is that the record has a
\* key 'command'; without it the call prints an error and returns
EnqueueRecord(data) ==
    /\ data.id \notin DOMAIN jobs
    /\ jobs' = IF "command" \in DOMAIN data
               THEN insert_job(jobs, from_dict(data, now))
               ELSE jobs
    /\ UNCHANGED <<now, backoff_base, pc, wjob, start_time, opc, ojob,
                   nclaims, nexecs, nretries>>
    /\ UNCHANGED ext

\* QueueManager.get_next_job, first half: BEGIN IMMEDIATE, the SELECT, and
\* the commit that Database.execute_query issues after the SELECT (which
\* ends the transaction and releases the write lock); then
\* job.mark_processing() on the local copy.  With no row the call returns
\* None and the worker sleeps: no state changes.
SelectAt(w, at) ==
    /\ pc[w] = at
    /\ \E i \in FirstRows(jobs, now) :
          /\ nclaims[i] + Cardinality({v \in Workers :
                 pc[v] = "claim" /\ wjob[v].id = i}) < MaxClaims
          /\ wjob' = [wjob EXCEPT ![w] = mark_processing(jobs[i], now)]
    /\ pc' = [pc EXCEPT ![w] = "claim"]
    /\ UNCHANGED <<jobs, now, backoff_base, start_time, opc, ojob,
                   nclaims, nexecs, nretries>>
    /\ UNCHANGED ext

\* Worker.run's test "while self.running" and the call of get_next_job,
\* taken as one step
GetNextJobSelect(w) == running[w] /\ SelectAt(w, "poll")

\* Worker._signal_handler: SIGINT or SIGTERM reaches a worker that has not
\* left its loop; the handler runs between any two steps of the worker
SignalHandler(w) ==
    /\ pc[w] # "stopped"
    /\ running[w]
    /\ running' = [running EXCEPT ![w] = FALSE]
    /\ UNCHANGED <<jobs, now, backoff_base, pc, wjob, start_time, opc, ojob,
                   nclaims, nexecs, nretries, ndups, cfgvars>>

\* the worker process dies (kill -9, power loss) at any point of its loop;
\* wjob keeps, as history, the job whose claim the worker had committed
Crash(w) ==
    /\ pc[w] \in {"poll", "claim", "run"}
    /\ pc' = [pc EXCEPT ![w] = "crashed"]
    /\ wjob' = [wjob EXCEPT ![w] = IF pc[w] = "run" THEN wjob[w] ELSE NoJob]
    /\ UNCHANGED <<jobs, now, backoff_base, start_time, opc, ojob,
                   nclaims, nexecs, nretries>>
    /\ UNCHANGED ext

\* Worker.run, the test "while self.running" as a step of its own: the
\* worker enters the loop body
LoopEnter(w) ==
    /\ pc[w] = "poll"
    /\ running[w]
    /\ pc' = [pc EXCEPT ![w] = "enter"]
    /\ UNCHANGED <<jobs, now, backoff_base, wjob, start_time, opc, ojob,
                   nclaims, nexecs, nretries>>
    /\ UNCHANGED ext

\* Worker.run, the test "while self.running" fails: the worker leaves the
\* loop and prints "Stopped"
LoopExit(w) ==
    /\ pc[w] = "poll"
    /\ ~running[w]
    /\ pc' = [pc EXCEPT ![w] = "stopped"]
    /\ UNCHANGED <<jobs, now, backoff_base, wjob, start_time, opc, ojob,
                   nclaims, nexecs, nretries>>
    /\ UNCHANGED ext

\* Worker.run in the loop body: get_next_job finds a row
EnteredSelect(w) == SelectAt(w, "enter")

\* Worker.run in the loop body: get_next_job returns None, the worker
\* sleeps and comes back to the test
PollEmpty(w) ==
    /\ pc[w] = "enter"
    /\ FirstRows(jobs, now) = {}
    /\ pc' = [pc EXCEPT ![w] = "poll"]
    /\ UNCHANGED <<jobs, now, backoff_base, wjob, start_time, opc, ojob,
                   nclaims, nexecs, nretries>>
    /\ UNCHANGED ext

\* QueueManager.get_next_job, second half: update_job (its own implicit
\* transaction, committed by execute_query) and return job; Worker.run sets
\* current_job and process_job reads start_time.
GetNextJobUpdate(w) ==
    /\ pc[w] = "claim"
    /\ jobs' = update_job(jobs, wjob[w])
    /\ pc' = [pc EXCEPT ![w] = "run"]
    /\ start_time' = [start_time EXCEPT ![w] = now]
    /\ nclaims' = [nclaims EXCEPT ![wjob[w].id] = @ + 1]
    /\ UNCHANGED <<now, backoff_base, wjob, opc, ojob, nexecs, nretries>>
    /\ UNCHANGED ext

\* Worker.process_job once execute_command has returned r: mark the local
\* copy, update_job, and back in Worker.run current_job = None
ProcessJob(w, r) ==
    /\ pc[w] = "run"
    /\ jobs' = update_job(jobs, process_result(wjob[w], r, backoff_base, now,
                                               now - start_time[w]))
    /\ pc' = [pc EXCEPT ![w] = "poll"]
    /\ wjob' = [wjob EXCEPT ![w] = NoJob]
    /\ start_time' = [start_time EXCEPT ![w] = 0]
    /\ nexecs' = [nexecs EXCEPT ![wjob[w].id] = @ + 1]
    /\ UNCHANGED <<now, backoff_base, opc, ojob, nclaims, nretries>>
    /\ UNCHANGED ext

\* get_next_job's BEGIN IMMEDIATE raises (sqlite3.OperationalError, the
\* database is locked): nothing was read or written; Worker.run catches the
\* exception and prints it
BeginFails(w) ==
    /\ pc[w] = "poll"
    /\ running[w]
    /\ pc' = [pc EXCEPT ![w] = "error"]
    /\ UNCHANGED <<jobs, now, backoff_base, wjob, start_time, opc, ojob,
                   nclaims, nexecs, nretries>>
    /\ UNCHANGED ext

\* get_next_job's update_job raises: conn.rollback(), the exception goes on
\* to Worker.run; no row is written and no job is returned
ClaimWriteFails(w) ==
    /\ pc[w] = "claim"
    /\ pc' = [pc EXCEPT ![w] = "error"]
    /\ wjob' = [wjob EXCEPT ![w] = NoJob]
    /\ UNCHANGED <<jobs, now, backoff_base, start_time, opc, ojob,
                   nclaims, nexecs, nretries>>
    /\ UNCHANGED ext

\* process_job's update_job raises after the command has run: no row is
\* written, Worker.run catches the exception; self.current_job keeps the
\* job
FinalizeFails(w) ==
    /\ pc[w] = "run"
    /\ pc' = [pc EXCEPT ![w] = "error"]
    /\ nexecs' = [nexecs EXCEPT ![wjob[w].id] = @ + 1]
    /\ UNCHANGED <<jobs, now, backoff_base, wjob, start_time, opc, ojob,
                   nclaims, nretries>>
    /\ UNCHANGED ext

\* Worker.run's except branch: time.sleep(5), then the loop condition
ErrorResume(w) ==
    /\ pc[w] = "error"
    /\ pc' = [pc EXCEPT ![w] = "poll"]
    /\ UNCHANGED <<jobs, now, backoff_base, wjob, start_time, opc, ojob,
                   nclaims, nexecs, nretries>>
    /\ UNCHANGED ext

\* QueueManager.retry_dlq_job, first half: get_job and the test of the
\* state; a missing or non-dead job returns False and changes nothing.
RetryDlqRead(o, id) ==
    /\ opc[o] = "idle"
    /\ id \in DOMAIN jobs
    /\ jobs[id].state = "dead"
    /\ nretries[id] < MaxDlqRetries
    /\ ojob' = [ojob EXCEPT ![o] = retry_reset(jobs[id], now)]
    /\ opc' = [opc EXCEPT ![o] = "write"]
    /\ UNCHANGED <<jobs, now, backoff_base, pc, wjob, start_time,
                   nclaims, nexecs, nretries>>
    /\ UNCHANGED ext

\* QueueManager.retry_dlq_job, second half: update_job, return True
RetryDlqWrite(o) ==
    /\ opc[o] = "write"
    /\ jobs' = update_job(jobs, ojob[o])
    /\ opc' = [opc EXCEPT ![o] = "idle"]
    /\ ojob' = [ojob EXCEPT ![o] = NoJob]
    /\ nretries' = [nretries EXCEPT ![ojob[o].id] = @ + 1]
    /\ UNCHANGED <<now, backoff_base, pc, wjob, start_time, nclaims, nexecs>>
    /\ UNCHANGED ext

\* the steps of the producers J x P, the workers W and the operators O
NextOver(J, P, W, O) ==
    \/ Tick
    \/ \E id \in J, m \in 0..MaxMaxRetries, p \in P,
          ra \in {NULL} \cup Times : Enqueue(id, m, p, ra)
    \/ \E w \in W : GetNextJobSelect(w)
    \/ \E w \in W : GetNextJobUpdate(w)
    \/ \E w \in W, r \in Results : ProcessJob(w, r)
    \/ \E o \in O, id \in J : RetryDlqRead(o, id)
    \/ \E o \in O : RetryDlqWrite(o)

\* one job, enqueued once, among NumWorkers workers and an operator
Next == NextOver({"j1"}, {0}, Workers, {"op"})

Spec == Init /\ [][Next]_vars

\* the values `queuectl config set backoff_base` has stored before the run
BackoffBases == {2, 3}

InitBackoff ==
    /\ jobs = << >>
    /\ now = 0
    /\ backoff_base \in BackoffBases
    /\ pc = [w \in Workers |-> "poll"]
    /\ wjob = [w \in Workers |-> NoJob]
    /\ start_time = [w \in Workers |-> 0]
    /\ opc = [o \in Operators |-> "idle"]
    /\ ojob = [o \in Operators |-> NoJob]
    /\ nclaims = [i \in JobIds |-> 0]
    /\ nexecs = [i \in JobIds |-> 0]
    /\ nretries = [i \in JobIds |-> 0]
    /\ running = [w \in Workers |-> TRUE]
    /\ ndups = [i \in JobIds |-> 0]
    /\ config = DEFAULTS
    /\ cproc = [p \in ConfigProcs |-> ConfigReady]
    /\ sup = SupJoining

\* one job and one worker, over a clock long enough for every retry
NextBackoff ==
    \/ TickUpTo(MaxBackoffTime)
    \/ \E m \in 0..MaxBackoffRetries : Enqueue("j1", m, 0, NULL)
    \/ GetNextJobSelect(1)
    \/ GetNextJobUpdate(1)
    \/ \E r \in Results : ProcessJob(1, r)

SpecBackoff == InitBackoff /\ [][NextBackoff]_vars

\* one job and one worker, and two operators who run `dlq retry`
NextDlq == NextOver({"j1"}, {0}, {1}, Operators)

SpecDlq == Init /\ [][NextDlq]_vars

\* producers that enqueue two ids, each more than once, beside one worker
NextEnqueue ==
    \/ Tick
    \/ \E id \in JobIds, p \in Priorities : Enqueue(id, 0, p, NULL)
    \/ \E id \in JobIds, p \in Priorities, ra \in {NULL, 1} :
          EnqueueDuplicate(id, 1, p, ra)
    \/ GetNextJobSelect(1)
    \/ GetNextJobUpdate(1)
    \/ \E r \in {"ok", "exit"} : ProcessJob(1, r)

SpecEnqueue == Init /\ [][NextEnqueue]_vars

\* the records of the enqueue surface, well-formed and not
EnqueueRecords ==
    { [id |-> i] : i \in JobIds }
    \cup { [id |-> i, command |-> c, timeout |-> t] :
              i \in JobIds, c \in {"", "cmd"}, t \in {-5, 0, 60} }
    \cup { [id |-> i, command |-> c, run_at |-> r] :
              i \in JobIds, c \in {"", "cmd"}, r \in {1, NotATime} }

\* producers that enqueue any of these records, beside one worker
NextRecords ==
    \/ Tick
    \/ \E data \in EnqueueRecords : EnqueueRecord(data)
    \/ GetNextJobSelect(1)
    \/ GetNextJobUpdate(1)
    \/ \E r \in {"ok", "exit"} : ProcessJob(1, r)

SpecRecords == Init /\ [][NextRecords]_vars

\* records of the enqueue surface that carry keys of the stored record
RawRecords ==
    { [id |-> i, command |-> "cmd"] : i \in JobIds }
    \cup { [id |-> i, command |-> "cmd", state |-> st, attempts |-> a] :
              i \in JobIds, st \in STATES, a \in {0, 5} }
    \cup { [id |-> i, command |-> "cmd", started_at |-> 1,
            error_message |-> "mine"] : i \in JobIds }

\* producers that enqueue any of these records, beside one worker
NextRaw ==
    \/ Tick
    \/ \E data \in RawRecords : EnqueueRecord(data)
    \/ GetNextJobSelect(1)
    \/ GetNextJobUpdate(1)
    \/ \E r \in {"ok", "exit"} : ProcessJob(1, r)

SpecRaw == Init /\ [][NextRaw]_vars

\* one job among NumWorkers workers that are sent SIGINT or SIGTERM at any
\* moment
NextShutdown ==
    \/ Tick
    \/ \E m \in 0..MaxMaxRetries : Enqueue("j1", m, 0, NULL)
    \/ \E w \in Workers : SignalHandler(w)
    \/ \E w \in Workers : LoopEnter(w)
    \/ \E w \in Workers : LoopExit(w)
    \/ \E w \in Workers : EnteredSelect(w)
    \/ \E w \in Workers : PollEmpty(w)
    \/ \E w \in Workers : GetNextJobUpdate(w)
    \/ \E w \in Workers, r \in {"ok", "exit"} : ProcessJob(w, r)

SpecShutdown == Init /\ [][NextShutdown]_vars

\* one job among NumWorkers workers that may die, and an operator
NextCrash ==
    \/ NextOver({"j1"}, {0}, Workers, {"op"})
    \/ \E w \in Workers : Crash(w)

SpecCrash == Init /\ [][NextCrash]_vars

\* one job and one worker whose store operations may fail
NextStoreFail ==
    \/ Tick
    \/ \E m \in 0..MaxMaxRetries : Enqueue("j1", m, 0, NULL)
    \/ GetNextJobSelect(1)
    \/ GetNextJobUpdate(1)
    \/ \E r \in Results : ProcessJob(1, r)
    \/ BeginFails(1)
    \/ ClaimWriteFails(1)
    \/ FinalizeFails(1)
    \/ ErrorResume(1)

SpecStoreFail == Init /\ [][NextStoreFail]_vars

\* --------------------------------------------------------- Config steps
\* everything but the config table and its clients
jobvars == <<jobs, now, backoff_base, pc, wjob, start_time, opc, ojob,
             nclaims, nexecs, nretries, running, ndups>>

\* _init_defaults moves on to the next key, or __init__ returns
InitAdvance(key) ==
    IF NextKey(key) = NONE THEN ConfigReady
    ELSE [pc |-> "init_read", key |-> NextKey(key), value |-> NULL]

\* _init_defaults: SELECT value FROM config WHERE key = ?, for one key
InitDefaultsRead(p) ==
    /\ cproc[p].pc = "init_read"
    /\ cproc' = [cproc EXCEPT ![p] =
                   IF cproc[p].key \in DOMAIN config
                   THEN InitAdvance(cproc[p].key)
                   ELSE [pc |-> "init_insert", key |-> cproc[p].key,
                         value |-> NULL]]
    /\ UNCHANGED <<jobvars, config, sup>>

\* _init_defaults: the INSERT after "if not existing"; a row stored since
\* the SELECT makes it raise IntegrityError out of Config.__init__
InitDefaultsInsert(p) ==
    /\ cproc[p].pc = "init_insert"
    /\ IF cproc[p].key \in DOMAIN config
       THEN /\ cproc' = [cproc EXCEPT ![p].pc = "failed"]
            /\ UNCHANGED config
       ELSE /\ config' = insert_config(config, cproc[p].key,
                                       DEFAULTS[cproc[p].key])
            /\ cproc' = [cproc EXCEPT ![p] = InitAdvance(cproc[p].key)]
    /\ UNCHANGED <<jobvars, sup>>

\* Config.set: SELECT value FROM config WHERE key = ?
SetRead(p, key, value) ==
    /\ cproc[p].pc = "ready"
    /\ cproc' = [cproc EXCEPT ![p] =
                   [pc |-> IF key \in DOMAIN config THEN "set_update"
                           ELSE "set_insert",
                    key |-> key, value |-> value]]
    /\ UNCHANGED <<jobvars, config, sup>>

\* Config.set: the UPDATE of the "if existing" branch
SetUpdate(p) ==
    /\ cproc[p].pc = "set_update"
    /\ config' = update_config(config, cproc[p].key, Str(cproc[p].value))
    /\ cproc' = [cproc EXCEPT ![p] = ConfigReady]
    /\ UNCHANGED <<jobvars, sup>>

\* Config.set: the INSERT of the else branch; a row stored since the
\* SELECT makes it raise IntegrityError
SetInsert(p) ==
    /\ cproc[p].pc = "set_insert"
    /\ IF cproc[p].key \in DOMAIN config
       THEN /\ cproc' = [cproc EXCEPT ![p].pc = "failed"]
            /\ UNCHANGED config
       ELSE /\ config' = insert_config(config, cproc[p].key,
                                       Str(cproc[p].value))
            /\ cproc' = [cproc EXCEPT ![p] = ConfigReady]
    /\ UNCHANGED <<jobvars, sup>>

\* the values a config row may hold before the processes start
StoredValues == {"2", "7"}

\* the config tables the processes may find: any rows of recognised keys
StoredConfigs ==
    UNION {[S -> StoredValues] :
             S \in SUBSET {ConfigKeys[n] : n \in 1..Len(ConfigKeys)}}

\* every process is about to construct its Config
InitConfig ==
    /\ jobs = << >>
    /\ now = 0
    /\ backoff_base = DefaultBackoffBase
    /\ pc = [w \in Workers |-> "poll"]
    /\ wjob = [w \in Workers |-> NoJob]
    /\ start_time = [w \in Workers |-> 0]
    /\ opc = [o \in Operators |-> "idle"]
    /\ ojob = [o \in Operators |-> NoJob]
    /\ nclaims = [i \in JobIds |-> 0]
    /\ nexecs = [i \in JobIds |-> 0]
    /\ nretries = [i \in JobIds |-> 0]
    /\ running = [w \in Workers |-> TRUE]
    /\ ndups = [i \in JobIds |-> 0]
    /\ config \in StoredConfigs
    /\ cproc = [p \in ConfigProcs |->
                  [pc |-> "init_read", key |-> ConfigKeys[1], value |-> NULL]]
    /\ sup = SupJoining

NextConfigOver(P) ==
    \/ \E p \in P : InitDefaultsRead(p)
    \/ \E p \in P : InitDefaultsInsert(p)
    \/ \E p \in P, key \in SetKeys, value \in SetValues :
         SetRead(p, key, value)
    \/ \E p \in P : SetUpdate(p)
    \/ \E p \in P : SetInsert(p)

\* one process constructs a Config and sets values, nobody else writes
NextConfigSeq == NextConfigOver({"c1"})

SpecConfigSeq == InitConfig /\ [][NextConfigSeq]_vars

\* the processes construct their Configs and set values at the same time
NextConfig == NextConfigOver(ConfigProcs)

SpecConfig == InitConfig /\ [][NextConfig]_vars

\* two jobs of either priority before one worker
NextOrder ==
    \/ Tick
    \/ \E id \in JobIds, m \in 0..MaxMaxRetries, p \in Priorities,
          ra \in {NULL, 1} : Enqueue(id, m, p, ra)
    \/ GetNextJobSelect(1)
    \/ GetNextJobUpdate(1)
    \/ \E r \in {"ok", "exit"} : ProcessJob(1, r)

SpecOrder == Init /\ [][NextOrder]_vars

\* two jobs before one worker and one operator
NextFrame ==
    \/ TickUpTo(1)
    \/ \E id \in JobIds, m \in {0, 1}, p \in Priorities, ra \in {NULL, 1} :
         Enqueue(id, m, p, ra)
    \/ GetNextJobSelect(1)
    \/ GetNextJobUpdate(1)
    \/ \E r \in {"ok", "exit"} : ProcessJob(1, r)
    \/ \E id \in JobIds : RetryDlqRead("op", id)
    \/ RetryDlqWrite("op")

SpecFrame == Init /\ [][NextFrame]_vars

\* ---------------------------------------------------- the supervisor
\* a join that does not wait for the process
Exited_without_waiting(w) == TRUE

\* Process.join returns: the worker process has left Worker.run or died
Exited(w) == pc[w] \in {"stopped", "crashed"}

\* the supervisor moves on from worker i: to the next one, or out of start
SupAfter(i, next, last) ==
    IF i = NumWorkers THEN [sup EXCEPT !.pc = last]
    ELSE [sup EXCEPT !.pc = next, !.i = i + 1]

\* cli.start, "for p in processes: p.join()": the join of worker i returns
SupJoin ==
    /\ sup.pc = "join"
    /\ Exited(sup.i)
    /\ sup' = SupAfter(sup.i, "join", "done")
    /\ UNCHANGED <<jobvars, config, cproc>>

\* cli.start: KeyboardInterrupt is raised in a join
SupInterrupt ==
    /\ sup.pc = "join"
    /\ sup' = [sup EXCEPT !.pc = "terminate", !.i = 1]
    /\ UNCHANGED <<jobvars, config, cproc>>

\* cli.start, except branch: p.terminate() sends SIGTERM to worker i, whose
\* handler clears Worker.running if the process is still there
SupTerminate ==
    /\ sup.pc = "terminate"
    /\ sup' = [sup EXCEPT !.pc = "wait", !.sent = @ \cup {sup.i}]
    /\ running' = IF Exited(sup.i) THEN running
                  ELSE [running EXCEPT ![sup.i] = FALSE]
    /\ UNCHANGED <<jobs, now, backoff_base, pc, wjob, start_time, opc, ojob,
                   nclaims, nexecs, nretries, ndups, config, cproc>>

\* cli.start, except branch: the p.join() after p.terminate() returns
SupWait ==
    /\ sup.pc = "wait"
    /\ Exited(sup.i)
    /\ sup' = SupAfter(sup.i, "terminate", "returned")
    /\ UNCHANGED <<jobvars, config, cproc>>

\* what one worker process does next
WorkerStep(w) ==
    \/ LoopEnter(w)
    \/ LoopExit(w)
    \/ EnteredSelect(w)
    \/ PollEmpty(w)
    \/ GetNextJobUpdate(w)
    \/ \E r \in {"ok", "exit"} : ProcessJob(w, r)

\* what the supervisor does next once it is running
SupStep == SupJoin \/ SupTerminate \/ SupWait

\* the supervisor over NumWorkers workers and one job; a worker may also be
\* signalled from outside (worker stop)
NextSupervisor ==
    \/ TickUpTo(1)
    \/ Enqueue("j1", 1, 0, NULL)
    \/ \E w \in Workers : SignalHandler(w)
    \/ \E w \in Workers : LoopEnter(w)
    \/ \E w \in Workers : LoopExit(w)
    \/ \E w \in Workers : EnteredSelect(w)
    \/ \E w \in Workers : PollEmpty(w)
    \/ \E w \in Workers : GetNextJobUpdate(w)
    \/ \E w \in Workers, r \in {"ok", "exit"} : ProcessJob(w, r)
    \/ SupJoin
    \/ SupInterrupt
    \/ SupTerminate
    \/ SupWait

\* every process is scheduled and every command execution terminates
SpecSupervisor ==
    /\ Init
    /\ [][NextSupervisor]_vars
    /\ \A w \in Workers : WF_vars(WorkerStep(w))
    /\ WF_vars(SupStep)

\* ------------------------------------------------------------- progress
\* Worker.run of a worker that is never signalled, the loop test and
\* get_next_job taken as one step
WorkerLoop(w) ==
    \/ GetNextJobSelect(w)
    \/ GetNextJobUpdate(w)
    \/ \E r \in {"ok", "exit"} : ProcessJob(w, r)

\* the records a producer enqueues here: with or without a state key
ProgressRecords ==
    { [id |-> "j1", command |-> "cmd", max_retries |-> 1, state |-> st] :
         st \in {"pending", "processing"} }

\* one job, enqueued by options or as a record; worker 1 never dies, the
\* last worker may
NextProgress ==
    \/ Tick
    \/ \E m \in {0, 1}, ra \in {NULL, 1} : Enqueue("j1", m, 0, ra)
    \/ \E data \in ProgressRecords : EnqueueRecord(data)
    \/ \E w \in Workers : GetNextJobSelect(w)
    \/ \E w \in Workers : GetNextJobUpdate(w)
    \/ \E w \in Workers, r \in {"ok", "exit"} : ProcessJob(w, r)
    \/ Crash(NumWorkers)

\* every worker process is scheduled while it lives, every command
\* execution ends, and time advances
SpecProgress ==
    /\ Init
    /\ [][NextProgress]_vars
    /\ \A w \in Workers : WF_vars(WorkerLoop(w))
    /\ WF_vars(Tick)

\* ------------------------------------------------------------ properties
\* the worker holds the job: get_next_job has returned it and process_job
\* has not yet written its final state
Holds(w, i) == pc[w] = "run" /\ wjob[w].id = i

\* the step is worker w's write of its copy (the claim or the finalize)
WorkerWrites(w) == pc[w] \in {"claim", "run"} /\ pc'[w] # pc[w]

\* the step is operator o's write in retry_dlq_job
OperatorWrites(o) == opc[o] = "write" /\ opc'[o] = "idle"

\* the edges of the job state machine
Edges ==
    { <<"pending", "processing">>, <<"failed", "processing">>,
      <<"processing", "completed">>, <<"processing", "failed">>,
      <<"processing", "dead">>, <<"dead", "pending">> }

\* C1: a job that one worker has claimed and not yet finalized is never
\* returned to another worker: no two workers hold the same job.
C1_NoDoubleClaim ==
    \A v, w \in Workers, i \in DOMAIN jobs :
        (Holds(v, i) /\ Holds(w, i)) => v = w

\* C2: every change of a stored job's state is an edge of the job state
\* machine.
C2_OnlyMachineEdges ==
    [][\A i \in DOMAIN jobs :
          jobs'[i].state # jobs[i].state =>
              <<jobs[i].state, jobs'[i].state>> \in Edges]_vars

\* C3: every stored job has attempts <= max_retries, and a dead job has
\* attempts = max_retries.
C3_AttemptsBounded ==
    \A i \in DOMAIN jobs :
        /\ jobs[i].attempts <= jobs[i].max_retries
        /\ jobs[i].state = "dead" => jobs[i].attempts = jobs[i].max_retries

\* C4: a job never retried from the DLQ has its command executed at most
\* max_retries times.
C4_ExecutionsBounded ==
    \A i \in DOMAIN jobs :
        nretries[i] = 0 => nexecs[i] <= jobs[i].max_retries

\* C5: a finalized job that was never retried from the DLQ has attempts
\* equal to the number of times get_next_job moved it to processing.
C5_AttemptsCountClaims ==
    \A i \in DOMAIN jobs :
        (nretries[i] = 0 /\ jobs[i].state \in {"completed", "dead"})
            => jobs[i].attempts = nclaims[i]

C11_NotBeforeRunAt ==
    \A i \in DOMAIN jobs :
        jobs[i].run_at # NULL =>
            /\ now < jobs[i].run_at =>
                   /\ jobs[i].state = "pending"
                   /\ nclaims[i] = 0
                   /\ \A w \in Workers : wjob[w].id # i
            /\ jobs[i].started_at # NULL =>
                   jobs[i].run_at <= jobs[i].started_at

\* a job enqueued for a later time, claimed once that time has come
C11_Witness ==
    \E i \in DOMAIN jobs :
        /\ jobs[i].run_at # NULL
        /\ jobs[i].created_at < jobs[i].run_at
        /\ jobs[i].state = "processing"
        /\ jobs[i].started_at >= jobs[i].run_at

\* C12: a failed execution counts the attempt; while the count is below
\* max_retries the job gets next_retry_at = failure time +
\* backoff_base^attempts, otherwise it is dead with no next_retry_at.  With
\* backoff_base 2 and max_retries 3 the delays are 2, then 4, and the third
\* failure gives dead.
C12_RetryDelay ==
    [][\A w \in Workers :
          (pc[w] = "run" /\ pc'[w] = "poll"
              /\ jobs'[wjob[w].id].state # "completed") =>
            LET j == jobs'[wjob[w].id]
                a == wjob[w].attempts + 1
            IN  /\ j.attempts = a
                /\ a < j.max_retries =>
                       /\ j.state = "failed"
                       /\ j.next_retry_at = now + Pow(backoff_base, a)
                /\ a >= j.max_retries =>
                       /\ j.state = "dead"
                       /\ j.next_retry_at = NULL
                /\ (backoff_base = 2 /\ j.max_retries = 3) =>
                       /\ a = 1 => j.next_retry_at = now + 2
                       /\ a = 2 => j.next_retry_at = now + 4
                       /\ a = 3 => j.state = "dead"]_vars

\* the third failure of a job with max_retries 3 under backoff_base 2
C12_Witness ==
    \E i \in DOMAIN jobs :
        /\ backoff_base = 2
        /\ jobs[i].max_retries = 3
        /\ jobs[i].attempts = 3
        /\ jobs[i].state = "dead"
        /\ nexecs[i] = 3

\* C13: a failed job is not claimed before its next_retry_at: whenever
\* get_next_job's write turns a stored failed job into processing, the
\* clock has reached the next_retry_at that the failure stored.
C13_NotBeforeRetryAt ==
    [][\A w \in Workers :
          (pc[w] = "claim" /\ pc'[w] = "run"
              /\ jobs[wjob[w].id].state = "failed") =>
            jobs[wjob[w].id].next_retry_at <= now]_vars

\* the step is worker w's SELECT in get_next_job, and it returns a row
WorkerSelects(w) == pc[w] \in {"poll", "enter"} /\ pc'[w] = "claim"

\* C14: when get_next_job selects a job, no other eligible job has a
\* strictly higher priority, and no eligible job of the same priority has a
\* strictly earlier created_at.
C14_HighestPriorityOldestFirst ==
    [][\A w \in Workers :
          WorkerSelects(w) =>
            LET i == wjob'[w].id
            IN  /\ i \in Eligible(jobs, now)
                /\ \A k \in Eligible(jobs, now) :
                      /\ jobs[k].priority <= jobs[i].priority
                      /\ jobs[k].priority = jobs[i].priority =>
                             jobs[i].created_at <= jobs[k].created_at]_vars

\* a job selected ahead of an eligible job that was enqueued earlier with a
\* lower priority
C14_Witness ==
    \E w \in Workers, k \in DOMAIN jobs :
        /\ pc[w] = "claim"
        /\ wjob[w].id # k
        /\ k \in Eligible(jobs, now)
        /\ jobs[k].priority < wjob[w].priority
        /\ jobs[k].created_at < wjob[w].created_at

\* the ids in lexicographic order
IdBefore(a, b) == a = "j1" /\ b = "j2"

\* C15: among eligible jobs that tie on priority and created_at,
\* get_next_job returns the one with the lexicographically smallest id.
C15_TieBreakById ==
    [][\A w \in Workers :
          WorkerSelects(w) =>
            \A k \in Eligible(jobs, now) :
                (/\ jobs[k].priority = wjob'[w].priority
                 /\ jobs[k].created_at = wjob'[w].created_at)
                    => ~IdBefore(k, wjob'[w].id)]_vars

\* C16: retry_dlq_job writes only a job whose stored state is dead at the
\* time of the write; on any other job it returns False and leaves the
\* store unchanged.
C16_RetryWritesOnlyDead ==
    [][\A o \in Operators :
          OperatorWrites(o) => jobs[ojob[o].id].state = "dead"]_vars

\* C17: each id names one record, the one stored under it; an enqueue
\* leaves every record the table already holds unchanged, and the enqueue
\* of an id the table already holds changes nothing in the table.
C17_DuplicateIdRejected ==
    /\ [](\A i \in DOMAIN jobs : jobs[i].id = i)
    /\ [][(ndups' # ndups \/ DOMAIN jobs' # DOMAIN jobs) =>
             /\ \A k \in DOMAIN jobs :
                   k \in DOMAIN jobs' /\ jobs'[k] = jobs[k]
             /\ ndups' # ndups => jobs' = jobs]_vars

\* a second enqueue of an id whose job has already run, beside another job
C17_Witness ==
    \E i, k \in DOMAIN jobs :
        /\ i # k
        /\ ndups[i] > 0
        /\ jobs[i].state \in {"completed", "dead"}
        /\ jobs[k].state = "pending"

\* C18: no record with an empty command, with a timeout that is not > 0 or
\* with a run_at that is no time stamp is ever inserted: every stored job
\* has a non-empty command, a positive timeout and a run_at that is null
\* or a time.
C18_OnlyValidRecords ==
    \A i \in DOMAIN jobs :
        /\ jobs[i].command # ""
        /\ jobs[i].timeout > 0
        /\ jobs[i].run_at # NotATime

\* C19: once a worker has received SIGTERM or SIGINT it claims no further
\* job: no get_next_job of a worker whose running flag is down returns a
\* job.
C19_NoClaimAfterSignal ==
    [][\A w \in Workers : WorkerSelects(w) => running[w]]_vars

\* C20: a job left in processing by a worker that died between its claim
\* and its finalize is changed by no later step: it stays processing with
\* the same attempts and no worker claims it again.
C20_OrphanNeverChanges ==
    [][\A w \in Workers :
          (/\ pc[w] = "crashed"
           /\ wjob[w] # NoJob
           /\ jobs[wjob[w].id].state = "processing") =>
            LET i == wjob[w].id
            IN  /\ jobs'[i].state = "processing"
                /\ jobs'[i].attempts = jobs[i].attempts
                /\ \A v \in Workers :
                      ~(pc[v] = "claim" /\ pc'[v] = "run"
                            /\ wjob[v].id = i)]_vars

C22_StoreFailureIsFatal ==
    [][\A w \in Workers :
          pc[w] = "error" => pc'[w] \in {"error", "stopped"}]_vars

\* C23: used by one process, constructing a Config leaves every recognised
\* key stored, with its default where it was absent and its previous value
\* otherwise; get answers the stored value or else the default; and after
\* set(k, v) the call get(k) answers the text form of v, from the one row
\* of k.
C23_ConfigSequential ==
    /\ [](\A p \in ConfigProcs : cproc[p].pc = "ready" =>
            \A n \in 1..Len(ConfigKeys) : ConfigKeys[n] \in DOMAIN config)
    /\ [][\A p \in ConfigProcs :
            (cproc[p].pc \in {"init_read", "init_insert"}
               /\ cproc'[p] # cproc[p]) =>
              /\ cproc'[p].pc # "failed"
              /\ \A k \in DOMAIN config :
                   k \in DOMAIN config' /\ config'[k] = config[k]
              /\ \A k \in DOMAIN config' \ DOMAIN config :
                   config'[k] = DEFAULTS[k]]_vars
    /\ [](\A k \in DOMAIN DEFAULTS \cup SetKeys :
            Config_get(config, k, NONE) =
              IF k \in DOMAIN config THEN config[k]
              ELSE IF k \in DOMAIN DEFAULTS THEN DEFAULTS[k] ELSE NONE)
    /\ [][\A p \in ConfigProcs :
            (cproc[p].pc \in {"set_update", "set_insert"}
               /\ cproc'[p] # cproc[p]) =>
              /\ cproc'[p].pc = "ready"
              /\ Config_get(config', cproc[p].key, NONE) =
                   Str(cproc[p].value)]_vars

\* a constructed Config that kept a stored value, filled in a default and
\* has been set a key of each kind
C23_Witness ==
    /\ cproc["c1"].pc = "ready"
    /\ DOMAIN config = DOMAIN DEFAULTS \cup {"log_level"}
    /\ config["max_retries"] = "7"
    /\ config["job_timeout"] = "300"
    /\ config["backoff_base"] = "5"
    /\ config["log_level"] = "7"

\* C29: when several processes construct their Configs at the same time,
\* none of them fails, and none fails in a set either.
C29_ConcurrentStartup ==
    \A p \in ConfigProcs : cproc[p].pc # "failed"

\* C24: no step after the enqueue changes the id, command, max_retries,
\* priority, timeout, run_at or created_at of a stored job, and a step of
\* get_next_job, process_job or retry_dlq_job changes no field of any job
\* other than the one it claimed, finalized or retried.
C24_Frame ==
    [][/\ \A i \in DOMAIN jobs :
            /\ i \in DOMAIN jobs'
            /\ jobs'[i].id = jobs[i].id
            /\ jobs'[i].command = jobs[i].command
            /\ jobs'[i].max_retries = jobs[i].max_retries
            /\ jobs'[i].priority = jobs[i].priority
            /\ jobs'[i].timeout = jobs[i].timeout
            /\ jobs'[i].run_at = jobs[i].run_at
            /\ jobs'[i].created_at = jobs[i].created_at
       /\ \A w \in Workers : pc'[w] # pc[w] =>
            \A i \in DOMAIN jobs : i # wjob[w].id /\ i # wjob'[w].id =>
               jobs'[i] = jobs[i]
       /\ \A o \in Operators : opc'[o] # opc[o] =>
            \A i \in DOMAIN jobs : i # ojob[o].id /\ i # ojob'[o].id =>
               jobs'[i] = jobs[i]]_vars

\* both jobs stored, one retried from the dead letter queue and claimed
\* again while the other has been finalized
C24_Witness ==
    /\ DOMAIN jobs = JobIds
    /\ nretries["j1"] = 1
    /\ jobs["j1"].state = "processing"
    /\ jobs["j2"].state \in {"completed", "dead"}
    /\ jobs["j2"].priority # jobs["j1"].priority

\* C25: a supervisor interrupted in its joins has, when it returns, sent
\* the termination signal to every worker and seen every worker exit; and
\* as every command execution terminates, an interrupted supervisor does
\* eventually return, with no worker still running.
C25_SupervisorShutdown ==
    /\ [](sup.pc = "returned" =>
            /\ sup.sent = Workers
            /\ \A w \in Workers : pc[w] \in {"stopped", "crashed"})
    /\ [][sup'.pc = "wait" /\ sup.pc # "wait" =>
            /\ sup.i \in sup'.sent
            /\ pc[sup.i] \in {"stopped", "crashed"} \/ ~running'[sup.i]]_vars
    /\ (sup.pc = "terminate") ~>
          (/\ sup.pc = "returned"
           /\ \A w \in Workers : pc[w] \in {"stopped", "crashed"})

\* the supervisor has returned after an interrupt, every worker has left
\* its loop and the job was carried to its end
C25_Witness ==
    /\ sup.pc = "returned"
    /\ \A w \in Workers : pc[w] = "stopped"
    /\ "j1" \in DOMAIN jobs
    /\ jobs["j1"].state = "completed"
    /\ jobs["j1"].completed_at > jobs["j1"].started_at

\* C26: completed is absorbing: once the stored state of a job is
\* completed, no step changes any field of its record and its command is
\* not executed again.
C26_CompletedAbsorbing ==
    [][\A i \in DOMAIN jobs : jobs[i].state = "completed" =>
          /\ jobs'[i] = jobs[i]
          /\ nexecs'[i] = nexecs[i]]_vars

\* C27: no update is lost: the write that ends process_job finds the job
\* stored as processing with the started_at this worker set, and the write
\* of retry_dlq_job finds the job still stored as dead.
C27_NoLostUpdate ==
    [][/\ \A w \in Workers : pc[w] = "run" /\ pc'[w] # "run" =>
            /\ jobs[wjob[w].id].state = "processing"
            /\ jobs[wjob[w].id].started_at = wjob[w].started_at
       /\ \A o \in Operators : opc[o] = "write" /\ opc'[o] # "write" =>
            jobs[ojob[o].id].state = "dead"]_vars

\* C30: every record inserted through the enqueue surface starts pending
\* with attempts 0 and with next_retry_at, started_at, completed_at,
\* error_message, output and execution_time null, whatever keys the
\* caller's record has.
C30_EnqueuedInitial ==
    [][\A i \in DOMAIN jobs' \ DOMAIN jobs :
          /\ jobs'[i].state = "pending"
          /\ jobs'[i].attempts = 0
          /\ jobs'[i].next_retry_at = NULL
          /\ jobs'[i].started_at = NULL
          /\ jobs'[i].completed_at = NULL
          /\ jobs'[i].error_message = NONE
          /\ jobs'[i].output = NONE
          /\ jobs'[i].execution_time = NULL]_vars

\* C28: progress: with worker 1 running for ever, time advancing and every
\* command execution ending, every enqueued job eventually reaches the
\* state completed or dead.
C28_Progress ==
    \A i \in JobIds :
        [](i \in DOMAIN jobs =>
             <>(i \in DOMAIN jobs /\ jobs[i].state \in {"completed", "dead"}))

====
